---- MODULE Spec2Model ----
(***************************************************************************)
(* Model of scrape_google_flights.py: target-date resolution, the opaque   *)
(* "tfs" date rewriting, the per-date navigation loop of main() and the    *)
(* harvest loop of gather_cards().                                         *)
(***************************************************************************)
EXTENDS Integers, Sequences, FiniteSets, TLC

(***************************************************************************)
(* Bounds of the model.                                                    *)
(***************************************************************************)
MaxCards == 3
MaxChunks == 2
MaxControls == 2

(***************************************************************************)
(* Calendar dates (datetime.date) as records [y, m, d].                    *)
(***************************************************************************)
MkDate(y, m, d) == [y |-> y, m |-> m, d |-> d]

IsLeap(y) == (y % 4 = 0) /\ ((y % 100 # 0) \/ (y % 400 = 0))

DaysInMonth(y, m) ==
  IF m = 2 THEN (IF IsLeap(y) THEN 29 ELSE 28)
  ELSE IF m \in {4, 6, 9, 11} THEN 30 ELSE 31

\* date(y, m, d) raises ValueError unless this holds
ValidDate(y, m, d) ==
  /\ y \in 1..9999
  /\ m \in 1..12
  /\ d \in 1..DaysInMonth(y, m)

RECURSIVE DaysBeforeMonth(_, _)
DaysBeforeMonth(y, m) ==
  IF m = 1 THEN 0 ELSE DaysBeforeMonth(y, m - 1) + DaysInMonth(y, m - 1)

DaysBeforeYear(y) ==
  (y - 1) * 365 + ((y - 1) \div 4) - ((y - 1) \div 100) + ((y - 1) \div 400)

\* date.toordinal()
ToOrdinal(dt) == DaysBeforeYear(dt.y) + DaysBeforeMonth(dt.y, dt.m) + dt.d

\* date comparison (end < start)
DateLess(a, b) == ToOrdinal(a) < ToOrdinal(b)

NextDay(dt) ==
  IF dt.d < DaysInMonth(dt.y, dt.m) THEN MkDate(dt.y, dt.m, dt.d + 1)
  ELSE IF dt.m < 12 THEN MkDate(dt.y, dt.m + 1, 1)
  ELSE MkDate(dt.y + 1, 1, 1)

\* dt + timedelta(days=n), n >= 0
RECURSIVE AddDays(_, _)
AddDays(dt, n) == IF n = 0 THEN dt ELSE AddDays(NextDay(dt), n - 1)

(***************************************************************************)
(* Text and bytes.  A str is a tuple of one-character strings, a bytes     *)
(* object is a tuple of integers 0..255.                                   *)
(***************************************************************************)
\* the URL-safe base64 alphabet, value v at index v + 1
B64Alphabet ==
  <<"A", "B", "C", "D", "E", "F", "G", "H", "I", "J", "K", "L", "M",
  "N", "O", "P", "Q", "R", "S", "T", "U", "V", "W", "X", "Y", "Z", "a",
  "b", "c", "d", "e", "f", "g", "h", "i", "j", "k", "l", "m", "n", "o",
  "p", "q", "r", "s", "t", "u", "v", "w", "x", "y", "z", "0", "1", "2",
  "3", "4", "5", "6", "7", "8", "9", "-", "_">>

\* value of a character for base64.urlsafe_b64decode: the URL-safe
\* alphabet, plus "+" and "/" which the translation leaves in place;
\* 64 for every character the non-strict decoder discards
B64Value(c) ==
  IF c = "+" THEN 62
  ELSE IF c = "/" THEN 63
  ELSE IF \E i \in 1..64 : B64Alphabet[i] = c
       THEN (CHOOSE i \in 1..64 : B64Alphabet[i] = c) - 1
       ELSE 64

\* "=" * n
RECURSIVE Pads(_)
Pads(n) == IF n = 0 THEN << >> ELSE <<"=">> \o Pads(n - 1)

\* binascii.a2b_base64 in its default (non-strict) mode.  The decoder
\* scans the text once keeping quad_pos (data characters read, modulo 4)
\* and pads (consecutive "=" read since the last data character while
\* quad_pos >= 2): characters outside the alphabet are skipped, an "="
\* with quad_pos >= 2 and quad_pos + pads >= 4 ends the parse, and a
\* dangling quantum at the end of the input raises binascii.Error.
DataIdx(s) == {j \in 1..Len(s) : B64Value(s[j]) < 64}

QuadPosAt(s, i) == Cardinality({j \in DataIdx(s) : j < i}) % 4

PadsAt(s, i) ==
  Cardinality({j \in 1..i : s[j] = "=" /\ \A d \in DataIdx(s) : d > i \/ d < j})

PadStopAt(s, i) ==
  /\ s[i] = "="
  /\ QuadPosAt(s, i) >= 2
  /\ QuadPosAt(s, i) + PadsAt(s, i) >= 4

\* the values of the data characters of s, in order
RECURSIVE DataValues(_)
DataValues(s) ==
  IF Len(s) = 0 THEN << >>
  ELSE IF Len(s) = 1
  THEN (IF B64Value(s[1]) < 64 THEN <<B64Value(s[1])>> ELSE << >>)
  ELSE DataValues(SubSeq(s, 1, Len(s) \div 2))
         \o DataValues(SubSeq(s, (Len(s) \div 2) + 1, Len(s)))

\* index of the "=" that ends the parse, 0 if there is none
PadStop(s) ==
  IF \E i \in 1..Len(s) : PadStopAt(s, i)
  THEN CHOOSE i \in 1..Len(s) :
         PadStopAt(s, i) /\ \A j \in 1..(i - 1) : ~PadStopAt(s, j)
  ELSE 0

\* byte k of the output: three bytes from each quantum of four sextets
ByteAt(sextet, k) ==
  LET a == sextet[4 * ((k - 1) \div 3) + ((k - 1) % 3) + 1]
      b == sextet[4 * ((k - 1) \div 3) + ((k - 1) % 3) + 2]
  IN IF (k - 1) % 3 = 0 THEN a * 4 + (b \div 16)
     ELSE IF (k - 1) % 3 = 1 THEN (a % 16) * 16 + (b \div 4)
     ELSE (a % 4) * 64 + b

\* number of bytes n sextets give
NBytes(n) == (n \div 4) * 3 + (IF n % 4 >= 2 THEN (n % 4) - 1 ELSE 0)

\* the result for the data characters read; stopped: a pad sequence ended
\* the parse
BytesOf(sextet, stopped) ==
  [ok |-> stopped \/ Len(sextet) % 4 = 0,
   bytes |-> [k \in 1..NBytes(Len(sextet)) |-> ByteAt(sextet, k)]]

DecodeUpTo(s, stop) ==
  BytesOf(DataValues(IF stop = 0 THEN s ELSE SubSeq(s, 1, stop - 1)), stop # 0)

A2bBase64(s) == DecodeUpTo(s, PadStop(s))

\* base64.urlsafe_b64decode(s)
urlsafe_b64decode(s) == A2bBase64(s)

\* base64.urlsafe_b64encode(b), "=" padding included
RECURSIVE urlsafe_b64encode(_)
urlsafe_b64encode(b) ==
  IF Len(b) = 0 THEN << >>
  ELSE IF Len(b) = 1
  THEN <<B64Alphabet[(b[1] \div 4) + 1], B64Alphabet[(b[1] % 4) * 16 + 1],
         "=", "=">>
  ELSE IF Len(b) = 2
  THEN <<B64Alphabet[(b[1] \div 4) + 1],
         B64Alphabet[(b[1] % 4) * 16 + (b[2] \div 16) + 1],
         B64Alphabet[(b[2] % 16) * 4 + 1], "=">>
  ELSE <<B64Alphabet[(b[1] \div 4) + 1],
         B64Alphabet[(b[1] % 4) * 16 + (b[2] \div 16) + 1],
         B64Alphabet[(b[2] % 16) * 4 + (b[3] \div 64) + 1],
         B64Alphabet[(b[3] % 64) + 1]>>
       \o urlsafe_b64encode(SubSeq(b, 4, Len(b)))

\* s.rstrip("=")
RECURSIVE RStripPad(_)
RStripPad(s) ==
  IF Len(s) > 0 /\ s[Len(s)] = "=" THEN RStripPad(SubSeq(s, 1, Len(s) - 1))
  ELSE s

IsDigitByte(x) == x \in 48..57

\* rb"\d{4}-\d{2}-\d{2}" matches the bytes at index i (1-based)
DateMatchAt(b, i) ==
  /\ i + 9 <= Len(b)
  /\ \A k \in {0, 1, 2, 3, 5, 6, 8, 9} : IsDigitByte(b[i + k])
  /\ b[i + 4] = 45
  /\ b[i + 7] = 45

\* re.search(rb"\d{4}-\d{2}-\d{2}", b): start of the leftmost match, 0 if
\* there is none
DateSearch(b) ==
  IF \E i \in 1..Len(b) : DateMatchAt(b, i)
  THEN CHOOSE i \in 1..Len(b) :
         DateMatchAt(b, i) /\ \A j \in 1..(i - 1) : ~DateMatchAt(b, j)
  ELSE 0

\* decimal digits of n as ASCII bytes, zero-padded to at least width w
RECURSIVE DigitBytes(_, _)
DigitBytes(n, w) ==
  IF n < 10 /\ w <= 1 THEN <<48 + n>>
  ELSE Append(DigitBytes(n \div 10, w - 1), 48 + (n % 10))

\* target_date.strftime("%Y-%m-%d").encode("ascii").  The C library's
\* strftime decides whether %Y is zero-padded to four digits: pad_year is
\* FALSE on platforms (glibc) that print years below 1000 unpadded.
strftime_Ymd(dt, pad_year) ==
  DigitBytes(dt.y, IF pad_year THEN 4 ELSE 1) \o <<45>>
    \o DigitBytes(dt.m, 2) \o <<45>> \o DigitBytes(dt.d, 2)

\* date.isoformat() as ASCII bytes
IsoBytes(dt) ==
  DigitBytes(dt.y, 4) \o <<45>> \o DigitBytes(dt.m, 2) \o <<45>>
    \o DigitBytes(dt.d, 2)

(***************************************************************************)
(* URLs.  A URL is the sequence of its query pairs [name, value]; scheme,  *)
(* host and path are carried through urlparse/urlunparse untouched.        *)
(***************************************************************************)
\* names of the query in order of first occurrence, blank values dropped
\* (urllib.parse.parse_qs keeps a dict name -> list of values)
RECURSIVE QsNames(_)
QsNames(q) ==
  IF Len(q) = 0 THEN << >>
  ELSE LET rest == QsNames(SubSeq(q, 1, Len(q) - 1))
           last == q[Len(q)]
       IN IF Len(last.value) = 0 THEN rest
          ELSE IF \E i \in 1..Len(rest) : rest[i] = last.name THEN rest
          ELSE Append(rest, last.name)

\* the list of non-blank values of one name, in order
RECURSIVE QsValues(_, _)
QsValues(q, name) ==
  IF Len(q) = 0 THEN << >>
  ELSE LET rest == QsValues(SubSeq(q, 2, Len(q)), name) IN
       IF q[1].name = name /\ Len(q[1].value) > 0
       THEN <<q[1].value>> \o rest ELSE rest

\* query.get("tfs", [None])[0]; the empty tuple stands for None
TfsValue(q) ==
  LET vs == QsValues(q, "tfs") IN IF Len(vs) = 0 THEN << >> ELSE vs[1]

\* urlencode(query, doseq=True) after query["tfs"] = [new_tfs]
RECURSIVE UrlEncodeWithTfs(_, _, _)
UrlEncodeWithTfs(q, names, new_tfs) ==
  IF Len(names) = 0 THEN << >>
  ELSE LET n == names[1]
           vs == IF n = "tfs" THEN <<new_tfs>> ELSE QsValues(q, n)
       IN [i \in 1..Len(vs) |-> [name |-> n, value |-> vs[i]]]
          \o UrlEncodeWithTfs(q, SubSeq(names, 2, Len(names)), new_tfs)

\* lines 115-121: splice the new date over the match and rebuild the URL
SpliceDate(base_url, decoded, start, new_date_bytes) ==
  IF start = 0 THEN base_url
  ELSE UrlEncodeWithTfs(base_url, QsNames(base_url),
         RStripPad(urlsafe_b64encode(
           SubSeq(decoded, 1, start - 1) \o new_date_bytes
             \o SubSeq(decoded, start + 10, Len(decoded)))))

\* lines 106-113: the decoded blob and its first date
RewriteDecoded(base_url, dec, target_date, pad_year) ==
  IF ~dec.ok THEN base_url
  ELSE SpliceDate(base_url, dec.bytes, DateSearch(dec.bytes),
                  strftime_Ymd(target_date, pad_year))

\* lines 102-105: the tfs value and its padding
RewriteTfs(base_url, tfs_value, target_date, pad_year) ==
  IF Len(tfs_value) = 0 THEN base_url
  ELSE RewriteDecoded(base_url,
         urlsafe_b64decode(tfs_value \o Pads((4 - (Len(tfs_value) % 4)) % 4)),
         target_date, pad_year)

\* build_url_for_date(base_url, target_date)
build_url_for_date(base_url, target_date, pad_year) ==
  RewriteTfs(base_url, TfsValue(base_url), target_date, pad_year)

\* the tfs value of DEFAULT_URL
DefaultTfs ==
  <<"C", "B", "w", "Q", "A", "h", "o", "o", "E", "g", "o", "y", "M",
  "D", "I", "1", "L", "T", "E", "w", "L", "T", "A", "0", "a", "g", "w",
  "I", "A", "h", "I", "I", "L", "2", "0", "v", "M", "D", "Q", "0", "c",
  "n", "Z", "y", "D", "A", "g", "C", "E", "g", "g", "v", "b", "S", "8",
  "w", "N", "2", "R", "m", "a", "0", "A", "B", "S", "A", "F", "w", "A",
  "Y", "I", "B", "C", "w", "j", "_", "_", "_", "_", "_", "_", "_", "_",
  "_", "_", "_", "8", "B", "m", "A", "E", "D">>

\* the tfu and tcfs parameters of DEFAULT_URL
DefaultTfu == <<"E", "g", "Y", "I", "A", "B", "A", "B", "G", "A", "A">>

DefaultTcfs ==
  <<"C", "h", "M", "K", "C", "C", "9", "t", "L", "z", "A", "0", "N",
  "H", "J", "2", "G", "g", "d", "K", "Y", "W", "t", "h", "c", "n", "R",
  "h", "U", "g", "R", "g", "A", "X", "g", "B">>

DEFAULT_URL ==
  <<[name |-> "tfs", value |-> DefaultTfs],
    [name |-> "tfu", value |-> DefaultTfu],
    [name |-> "tcfs", value |-> DefaultTcfs]>>

\* r"Egoy[A-Za-z0-9_-]{4}" matches the text at index i
YearChunkAt(s, i) ==
  /\ i + 7 <= Len(s)
  /\ SubSeq(s, i, i + 3) = <<"E", "g", "o", "y">>
  /\ \A k \in 4..7 : \E v \in 1..64 : B64Alphabet[v] = s[i + k]

\* rb"(20\d{2})" matches the bytes at index i
YearMatchAt(b, i) ==
  /\ i + 3 <= Len(b)
  /\ b[i] = 50
  /\ b[i + 1] = 48
  /\ IsDigitByte(b[i + 2])
  /\ IsDigitByte(b[i + 3])

\* start of the leftmost match of r"Egoy[A-Za-z0-9_-]{4}", 0 if none
FirstYearChunk(s) ==
  IF \E i \in 1..Len(s) : YearChunkAt(s, i)
  THEN CHOOSE i \in 1..Len(s) :
         YearChunkAt(s, i) /\ \A j \in 1..(i - 1) : ~YearChunkAt(s, j)
  ELSE 0

\* start of the leftmost match of rb"(20\d{2})", 0 if none
FirstYearMatch(b) ==
  IF \E i \in 1..Len(b) : YearMatchAt(b, i)
  THEN CHOOSE i \in 1..Len(b) :
         YearMatchAt(b, i) /\ \A j \in 1..(i - 1) : ~YearMatchAt(b, j)
  ELSE 0

\* lines 142-145
YearAt(decoded, ym) ==
  IF ym = 0 THEN 0
  ELSE 2000 + (decoded[ym + 2] - 48) * 10 + (decoded[ym + 3] - 48)

\* lines 138-142
YearOfDecoded(dec) ==
  IF ~dec.ok THEN 0 ELSE YearAt(dec.bytes, FirstYearMatch(dec.bytes))

\* lines 134-139: the matched chunk is 8 characters long
YearOfChunk(chunk) ==
  YearOfDecoded(urlsafe_b64decode(chunk \o Pads((4 - (Len(chunk) % 4)) % 4)))

\* lines 131-136
YearOfTfs(tfs_value, at) ==
  IF Len(tfs_value) = 0 THEN 0
  ELSE IF at = 0 THEN 0
  ELSE YearOfChunk(SubSeq(tfs_value, at, at + 7))

\* extract_year_from_url(base_url); 0 stands for None
extract_year_from_url(base_url) ==
  YearOfTfs(TfsValue(base_url), FirstYearChunk(TfsValue(base_url)))

(***************************************************************************)
(* Command-line text: splitting, stripping and parsing.                    *)
(***************************************************************************)
Digits == <<"0", "1", "2", "3", "4", "5", "6", "7", "8", "9">>

IsDigit(c) == \E i \in 1..10 : Digits[i] = c

DigitVal(c) == (CHOOSE i \in 1..10 : Digits[i] = c) - 1

\* s.find(sep): index of the first occurrence of sep in s, 0 if none
Find(s, sep) ==
  LET hits == {i \in 1..(Len(s) - Len(sep) + 1) :
                 SubSeq(s, i, i + Len(sep) - 1) = sep}
  IN IF hits = {} THEN 0 ELSE CHOOSE i \in hits : \A j \in hits : i <= j

\* s.split(sep)
RECURSIVE Split(_, _)
Split(s, sep) ==
  LET at == Find(s, sep) IN
  IF at = 0 THEN <<s>>
  ELSE <<SubSeq(s, 1, at - 1)>> \o Split(SubSeq(s, at + Len(sep), Len(s)), sep)

\* s.strip()
RECURSIVE Strip(_)
Strip(s) ==
  IF Len(s) > 0 /\ s[1] = " " THEN Strip(SubSeq(s, 2, Len(s)))
  ELSE IF Len(s) > 0 /\ s[Len(s)] = " " THEN Strip(SubSeq(s, 1, Len(s) - 1))
  ELSE s

\* value of a run of decimal digits
RECURSIVE DecimalValue(_)
DecimalValue(s) ==
  IF Len(s) = 0 THEN 0
  ELSE DecimalValue(SubSeq(s, 1, Len(s) - 1)) * 10 + DigitVal(s[Len(s)])

AllDigits(s) == Len(s) > 0 /\ \A i \in 1..Len(s) : IsDigit(s[i])

\* int(value) for a stripped text: an optional sign and decimal digits;
\* anything else raises ValueError (ok = FALSE)
ParseInt(s) ==
  IF AllDigits(s) THEN [ok |-> TRUE, val |-> DecimalValue(s)]
  ELSE IF Len(s) > 1 /\ s[1] = "-" /\ AllDigits(SubSeq(s, 2, Len(s)))
  THEN [ok |-> TRUE, val |-> 0 - DecimalValue(SubSeq(s, 2, Len(s)))]
  ELSE IF Len(s) > 1 /\ s[1] = "+" /\ AllDigits(SubSeq(s, 2, Len(s)))
  THEN [ok |-> TRUE, val |-> DecimalValue(SubSeq(s, 2, Len(s)))]
  ELSE [ok |-> FALSE, val |-> 0]

\* datetime.fromisoformat(value).date() for a text of the form YYYY-MM-DD;
\* a text of another shape or naming no calendar day raises ValueError
FromIsoFormat(s) ==
  IF /\ Len(s) = 10
     /\ \A k \in {1, 2, 3, 4, 6, 7, 9, 10} : IsDigit(s[k])
     /\ s[5] = "-"
     /\ s[8] = "-"
  THEN LET y == DecimalValue(SubSeq(s, 1, 4))
           m == DecimalValue(SubSeq(s, 6, 7))
           d == DecimalValue(SubSeq(s, 9, 10))
       IN IF ValidDate(y, m, d) THEN [ok |-> TRUE, date |-> MkDate(y, m, d)]
          ELSE [ok |-> FALSE, date |-> MkDate(1, 1, 1)]
  ELSE [ok |-> FALSE, date |-> MkDate(1, 1, 1)]

\* month names of the C locale, as strptime's %b and %B read them
MonthAbbr ==
  <<<<"J", "a", "n">>, <<"F", "e", "b">>, <<"M", "a", "r">>,
    <<"A", "p", "r">>, <<"M", "a", "y">>, <<"J", "u", "n">>,
    <<"J", "u", "l">>, <<"A", "u", "g">>, <<"S", "e", "p">>,
    <<"O", "c", "t">>, <<"N", "o", "v">>, <<"D", "e", "c">>>>

MonthFull ==
  <<<<"J", "a", "n", "u", "a", "r", "y">>,
    <<"F", "e", "b", "r", "u", "a", "r", "y">>,
    <<"M", "a", "r", "c", "h">>, <<"A", "p", "r", "i", "l">>,
    <<"M", "a", "y">>, <<"J", "u", "n", "e">>, <<"J", "u", "l", "y">>,
    <<"A", "u", "g", "u", "s", "t">>,
    <<"S", "e", "p", "t", "e", "m", "b", "e", "r">>,
    <<"O", "c", "t", "o", "b", "e", "r">>,
    <<"N", "o", "v", "e", "m", "b", "e", "r">>,
    <<"D", "e", "c", "e", "m", "b", "e", "r">>>>

\* datetime.strptime(name, fmt).month for fmt '%b' / '%B'; 0 when it raises
StrptimeMonth(name, table) ==
  IF \E m \in 1..12 : table[m] = name
  THEN CHOOSE m \in 1..12 : table[m] = name ELSE 0

\* the outcome of a call that raised ValueError
NoDate == [ok |-> FALSE, date |-> MkDate(1, 1, 1)]

\* lines 158-161: '%b' first, '%B' when it raises
MonthOf(name) ==
  IF StrptimeMonth(name, MonthAbbr) # 0 THEN StrptimeMonth(name, MonthAbbr)
  ELSE StrptimeMonth(name, MonthFull)

\* lines 158-163
LabelMonthDay(month, day, year) ==
  IF month = 0 THEN NoDate
  ELSE IF ~day.ok THEN NoDate
  ELSE IF ~ValidDate(year, month, day.val) THEN NoDate
  ELSE [ok |-> TRUE, date |-> MkDate(year, month, day.val)]

\* lines 154-157
LabelParts(parts, year) ==
  IF Len(parts) # 2 THEN NoDate
  ELSE LabelMonthDay(MonthOf(parts[1]), ParseInt(parts[2]), year)

\* lines 150-154
LabelHalves(halves, year) ==
  IF Len(halves) # 2 THEN NoDate
  ELSE LabelParts(Split(halves[2], <<" ">>), year)

\* label_to_date(label, year); ok = FALSE when it raises ValueError
label_to_date(label, year) == LabelHalves(Split(label, <<",", " ">>), year)

\* shift_year_safe(target, offset); ok = FALSE when it raises ValueError
shift_year_safe(target, offset) ==
  LET year == target.y + offset IN
  IF ValidDate(year, target.m, target.d)
  THEN [ok |-> TRUE, date |-> MkDate(year, target.m, target.d)]
  ELSE IF ValidDate(year, target.m, target.d - 1)
  THEN [ok |-> TRUE, date |-> MkDate(year, target.m, target.d - 1)]
  ELSE [ok |-> FALSE, date |-> target]

(***************************************************************************)
(* Card labels: _parse_date_fragment and _parse_dates_from_label           *)
(* (lines 216-246).  An ISO text is a str; the empty str is "no date".     *)
(***************************************************************************)
UpperLetters ==
  <<"A", "B", "C", "D", "E", "F", "G", "H", "I", "J", "K", "L", "M",
    "N", "O", "P", "Q", "R", "S", "T", "U", "V", "W", "X", "Y", "Z">>

LowerLetters ==
  <<"a", "b", "c", "d", "e", "f", "g", "h", "i", "j", "k", "l", "m",
    "n", "o", "p", "q", "r", "s", "t", "u", "v", "w", "x", "y", "z">>

\* the character class [A-Za-z]
IsAlpha(c) == \E i \in 1..26 : UpperLetters[i] = c \/ LowerLetters[i] = c

\* one character, lower-cased
LowerChar(c) ==
  IF \E i \in 1..26 : UpperLetters[i] = c
  THEN LowerLetters[CHOOSE i \in 1..26 : UpperLetters[i] = c]
  ELSE c

\* str.lower(): strptime compiles its patterns with re.IGNORECASE
LowerText(s) == [i \in 1..Len(s) |-> LowerChar(s[i])]

\* U+202F NARROW NO-BREAK SPACE, as one character
NarrowNoBreakSpace == "u202f"

\* label.replace("\u202f", " "), line 230
ReplaceNarrowSpaces(s) ==
  [i \in 1..Len(s) |-> IF s[i] = NarrowNoBreakSpace THEN " " ELSE s[i]]

\* " and arrives ", lines 231-232
AndArrives ==
  <<" ", "a", "n", "d", " ", "a", "r", "r", "i", "v", "e", "s", " ">>

\* weekday names of the C locale, as strptime's %a and %A read them
WeekdayAbbr ==
  <<<<"M", "o", "n">>, <<"T", "u", "e">>, <<"W", "e", "d">>,
    <<"T", "h", "u">>, <<"F", "r", "i">>, <<"S", "a", "t">>,
    <<"S", "u", "n">>>>

WeekdayFull ==
  <<<<"M", "o", "n", "d", "a", "y">>, <<"T", "u", "e", "s", "d", "a", "y">>,
    <<"W", "e", "d", "n", "e", "s", "d", "a", "y">>,
    <<"T", "h", "u", "r", "s", "d", "a", "y">>,
    <<"F", "r", "i", "d", "a", "y">>,
    <<"S", "a", "t", "u", "r", "d", "a", "y">>,
    <<"S", "u", "n", "d", "a", "y">>>>

\* a name of the table, whatever its case
NameIn(name, table) ==
  \E k \in 1..Len(table) : LowerText(table[k]) = LowerText(name)

\* the month a name of the table stands for, whatever its case; 0 if none
MonthIn(name, table) ==
  IF NameIn(name, table)
  THEN CHOOSE m \in 1..12 : LowerText(table[m]) = LowerText(name)
  ELSE 0

\* decimal digits of n as text, zero-padded to at least width w
RECURSIVE DigitChars(_, _)
DigitChars(n, w) ==
  IF n < 10 /\ w <= 1 THEN <<Digits[n + 1]>>
  ELSE Append(DigitChars(n \div 10, w - 1), Digits[(n % 10) + 1])

\* date.isoformat(), line 223 and line 244
isoformat(dt) ==
  DigitChars(dt.y, 4) \o <<"-">> \o DigitChars(dt.m, 2) \o <<"-">>
    \o DigitChars(dt.d, 2)

\* the last index of the run of letters that starts at index i
RECURSIVE RunEnd(_, _)
RunEnd(s, i) ==
  IF i + 1 <= Len(s) /\ IsAlpha(s[i + 1]) THEN RunEnd(s, i + 1) ELSE i

\* ' \d{1,2}' after the month name that ends at e2: the index of the last
\* digit taken (the quantifier is greedy), 0 when there is no match
DayEnd(s, e2) ==
  IF e2 + 2 <= Len(s) /\ s[e2 + 1] = " " /\ IsDigit(s[e2 + 2])
  THEN (IF e2 + 3 <= Len(s) /\ IsDigit(s[e2 + 3]) THEN e2 + 3 ELSE e2 + 2)
  ELSE 0

\* ', [A-Za-z]+ \d{1,2}' after the weekday name that ends at e1
MonthDayEnd(s, e1) ==
  IF /\ e1 + 3 <= Len(s)
     /\ s[e1 + 1] = ","
     /\ s[e1 + 2] = " "
     /\ IsAlpha(s[e1 + 3])
  THEN DayEnd(s, RunEnd(s, e1 + 3))
  ELSE 0

\* r"on ([A-Za-z]+, [A-Za-z]+ \d{1,2})" matched at index i: the index of
\* the last character of the match, 0 when there is none (line 217)
DateTextEndAt(s, i) ==
  IF /\ i + 3 <= Len(s)
     /\ SubSeq(s, i, i + 2) = <<"o", "n", " ">>
     /\ IsAlpha(s[i + 3])
  THEN MonthDayEnd(s, RunEnd(s, i + 3))
  ELSE 0

\* re.search: the leftmost index where the pattern matches, 0 if none
DateTextStart(s) ==
  IF \E i \in 1..Len(s) : DateTextEndAt(s, i) # 0
  THEN CHOOSE i \in 1..Len(s) :
         /\ DateTextEndAt(s, i) # 0
         /\ \A j \in 1..(i - 1) : DateTextEndAt(s, j) = 0
  ELSE 0

\* match.group(1).strip(), line 220
DateTextAt(s, i) == Strip(SubSeq(s, i + 3, DateTextEndAt(s, i)))

\* strptime's %d: one or two digits naming a day 1..31
StrptimeDay(s) ==
  IF AllDigits(s) /\ Len(s) <= 2 /\ DecimalValue(s) \in 1..31
  THEN DecimalValue(s) ELSE 0

\* strptime's %Y: exactly four digits
StrptimeYear(s) ==
  IF AllDigits(s) /\ Len(s) = 4 THEN DecimalValue(s) ELSE 0 - 1

\* the date of the converted fields, ValueError for no calendar day
StrptimeFields(weekday_ok, month, day, year) ==
  IF weekday_ok /\ month # 0 /\ day # 0 /\ ValidDate(year, month, day)
  THEN [ok |-> TRUE, date |-> MkDate(year, month, day)]
  ELSE NoDate

\* the words of the text against '<weekday>, <month> %d %Y'
StrptimeWords(words, weekdays, months) ==
  IF Len(words) # 4 THEN NoDate
  ELSE IF Len(words[1]) < 2 THEN NoDate
  ELSE IF words[1][Len(words[1])] # "," THEN NoDate
  ELSE StrptimeFields(
         NameIn(SubSeq(words[1], 1, Len(words[1]) - 1), weekdays),
         MonthIn(words[2], months),
         StrptimeDay(words[3]),
         StrptimeYear(words[4]))

\* datetime.strptime(text, fmt + " %Y").date() for the four formats of
\* line 221, in their order: '%A, %B %d', '%A, %b %d', '%a, %B %d',
\* '%a, %b %d'; ok = FALSE when it raises ValueError
Strptime(text, k) ==
  StrptimeWords(Split(text, <<" ">>),
                IF k <= 2 THEN WeekdayFull ELSE WeekdayAbbr,
                IF k \in {1, 3} THEN MonthFull ELSE MonthAbbr)

\* lines 221-226: the first format that parses wins, "" when none does
RECURSIVE FirstFormat(_, _)
FirstFormat(text, k) ==
  IF k > 4 THEN << >>
  ELSE IF Strptime(text, k).ok THEN isoformat(Strptime(text, k).date)
  ELSE FirstFormat(text, k + 1)

\* f"{date_text} {travel_year}", line 223
WithYear(date_text, travel_year) ==
  date_text \o <<" ">> \o DigitChars(travel_year, 1)

\* lines 217-226, given where the pattern matched
FragmentAt(fragment, at, travel_year) ==
  IF at = 0 THEN << >>
  ELSE FirstFormat(WithYear(DateTextAt(fragment, at), travel_year), 1)

\* _parse_date_fragment(fragment, travel_year)
parse_date_fragment(fragment, travel_year) ==
  FragmentAt(fragment, DateTextStart(fragment), travel_year)

\* lines 231-234: the text before the first " and arrives "
DepFragmentAt(label, at) ==
  IF at = 0 THEN label ELSE SubSeq(label, 1, at - 1)

\* lines 231-234: the text after the first " and arrives ", "" without one
ArrFragmentAt(label, at) ==
  IF at = 0 THEN << >>
  ELSE SubSeq(label, at + Len(AndArrives), Len(label))

dep_fragment(label) ==
  DepFragmentAt(ReplaceNarrowSpaces(label),
                Find(ReplaceNarrowSpaces(label), AndArrives))

arr_fragment(label) ==
  ArrFragmentAt(ReplaceNarrowSpaces(label),
                Find(ReplaceNarrowSpaces(label), AndArrives))

\* a buggy variant: the loop also runs when the dates are equal
RolloverPendingOrReached(arr, dep) == ~DateLess(dep, arr)

\* line 242: 'while arr_dt < dep_dt'
RolloverPending(arr, dep) == DateLess(arr, dep)

(***************************************************************************)
(* main(): resolution of the target dates (lines 494-535).                 *)
(* A result is [err, dates]: err is "none", or the exception that ends     *)
(* the run ("SystemExit" or "ValueError").                                 *)
(***************************************************************************)
Resolved(ds) == [err |-> "none", dates |-> ds]

Raised(kind) == [err |-> kind, dates |-> << >>]

\* a buggy variant: a malformed entry is skipped instead of reported
RECURSIVE ParseDateChunksSkipBad(_)
ParseDateChunksSkipBad(chunks) ==
  IF Len(chunks) = 0 THEN Resolved(<< >>)
  ELSE LET value == Strip(chunks[1])
           parsed == FromIsoFormat(value)
           rest == ParseDateChunksSkipBad(SubSeq(chunks, 2, Len(chunks)))
       IN IF Len(value) = 0 THEN rest
          ELSE IF ~parsed.ok THEN rest
          ELSE Resolved(<<parsed.date>> \o rest.dates)

\* the loop over args.dates.split(','): blank entries are skipped, the
\* first malformed entry raises SystemExit
RECURSIVE ParseDateChunks(_)
ParseDateChunks(chunks) ==
  IF Len(chunks) = 0 THEN Resolved(<< >>)
  ELSE LET value == Strip(chunks[1])
           parsed == FromIsoFormat(value)
           rest == ParseDateChunks(SubSeq(chunks, 2, Len(chunks)))
       IN IF Len(value) = 0 THEN rest
          ELSE IF ~parsed.ok THEN Raised("SystemExit")
          ELSE IF rest.err # "none" THEN rest
          ELSE Resolved(<<parsed.date>> \o rest.dates)

\* lines 510-513: the inclusive range
\* [start + timedelta(days=k) for k in range(days + 1)]
RangeBetween(start, end) ==
  IF ~start.ok \/ ~end.ok THEN Raised("SystemExit")
  ELSE IF DateLess(end.date, start.date) THEN Raised("SystemExit")
  ELSE Resolved([k \in 1..(ToOrdinal(end.date) - ToOrdinal(start.date) + 1)
                   |-> AddDays(start.date, k - 1)])

\* lines 504-513: the range strategy
ExpandRange(range_start, range_end) ==
  RangeBetween(FromIsoFormat(range_start), FromIsoFormat(range_end))

\* the loop over args.year_offsets.split(','); a result is [err, vals]
RECURSIVE ParseOffsetChunks(_)
ParseOffsetChunks(chunks) ==
  IF Len(chunks) = 0 THEN [err |-> "none", vals |-> << >>]
  ELSE LET value == Strip(chunks[1])
           parsed == ParseInt(value)
           rest == ParseOffsetChunks(SubSeq(chunks, 2, Len(chunks)))
       IN IF Len(value) = 0 THEN rest
          ELSE IF ~parsed.ok THEN [err |-> "SystemExit", vals |-> << >>]
          ELSE IF rest.err # "none" THEN rest
          ELSE [err |-> "none", vals |-> <<parsed.val>> \o rest.vals]

\* line 528: [shift_year_safe(base_date, offset) for offset in offsets]
ShiftEach(base_date, offsets) ==
  IF \E k \in 1..Len(offsets) : ~shift_year_safe(base_date, offsets[k]).ok
  THEN Raised("ValueError")
  ELSE Resolved([k \in 1..Len(offsets) |->
                   shift_year_safe(base_date, offsets[k]).date])

\* lines 516-528: label_to_date raises first, then the offsets are parsed
ShiftAll(base_date, parsed) ==
  IF ~base_date.ok THEN Raised("ValueError")
  ELSE IF parsed.err # "none" THEN Raised(parsed.err)
  ELSE ShiftEach(base_date.date,
                 IF Len(parsed.vals) = 0 THEN <<0>> ELSE parsed.vals)

\* line 515: extract_year_from_url(args.url) or datetime.now().year
BaseYearOf(from_url, now) == IF from_url # 0 THEN from_url ELSE now

\* lines 514-528: the label + year offsets strategy
ShiftByOffsets(url, target_date, year_offsets, now) ==
  ShiftAll(label_to_date(target_date,
                         BaseYearOf(extract_year_from_url(url), now)),
           ParseOffsetChunks(Split(year_offsets, <<",">>)))

\* a buggy variant: every date is kept
KeepAll(dates) == dates

\* unique_dates: duplicates collapsed, first-seen order kept
RECURSIVE Unique(_)
Unique(dates) ==
  IF Len(dates) = 0 THEN << >>
  ELSE LET rest == Unique(SubSeq(dates, 1, Len(dates) - 1))
           dt == dates[Len(dates)]
       IN IF \E i \in 1..Len(rest) : rest[i] = dt THEN rest
          ELSE Append(rest, dt)

\* lines 494-528: one strategy, by priority
SelectStrategy(a, now) ==
  IF Len(a.dates) > 0 THEN ParseDateChunks(Split(a.dates, <<",">>))
  ELSE IF Len(a.range_start) > 0 /\ Len(a.range_end) > 0
  THEN ExpandRange(a.range_start, a.range_end)
  ELSE ShiftByOffsets(a.url, a.target_date, a.year_offsets, now)

\* lines 530-535
Deduplicated(dates) ==
  IF dates.err # "none" THEN dates ELSE Resolved(Unique(dates.dates))

\* lines 494-535 of main(): one strategy by priority, then de-duplication
ResolveTargetDates(a, now) == Deduplicated(SelectStrategy(a, now))

(***************************************************************************)
(* The live page.  A rendered card is represented by its data-id           *)
(* attribute, NoId when the attribute is absent (get_attribute returns     *)
(* None).  A "show more" control is represented by what probing it does.   *)
(***************************************************************************)
NoId == "None"

CardIds == {"a", "b"}

CardIdValues == CardIds \cup {NoId}

\* the card lists find_elements can return
Pages == UNION {[1..n -> CardIdValues] : n \in 0..MaxCards}

\* hidden: is_displayed() is False; visible: displayed and the click
\* succeeds; unclickable: displayed and the click script raises; stale:
\* is_displayed() raises StaleElementReferenceException
ControlStates == {"hidden", "visible", "unclickable", "stale"}

\* the elements the four view_more_locators find, in probing order
ControlLists == UNION {[1..n -> ControlStates] : n \in 0..MaxControls}

\* lines 401-415: the outcome of probing the controls in order
RECURSIVE ProbeControls(_)
ProbeControls(ctrls) ==
  IF Len(ctrls) = 0 THEN "none"
  ELSE IF ctrls[1] = "stale" THEN "stale"
  ELSE IF ctrls[1] = "visible" THEN "clicked"
  ELSE ProbeControls(SubSeq(ctrls, 2, Len(ctrls)))

\* a buggy variant: the cap is tested with > instead of >=
CapReachedLate(max_results, n) == max_results # 0 /\ n > max_results

\* line 395: max_results and len(results) >= max_results
CapReached(max_results, n) == max_results # 0 /\ n >= max_results

\* a buggy variant: the loop ends only when the card count shrinks
NoGrowthStrict(count, prev_count) == count < prev_count

\* line 422: the rendered card count did not grow
NoGrowth(count, prev_count) == count <= prev_count

(***************************************************************************)
(* State.                                                                  *)
(***************************************************************************)
VARIABLES
  args,          \* the parsed command line (argparse.Namespace)
  now_year,      \* datetime.now().year
  pc,            \* position of the run in main() / gather_cards()
  error,         \* exception that ended the run before the session opened
  unique_dates,  \* main(): the resolved target dates
  di,            \* main(): index of the target date being processed
  acquired,      \* number of browser sessions configure_driver() opened
  quits,         \* number of driver.quit() calls
  navigated,     \* the driver.get() calls so far, as [date, url]
  cards,         \* gather_cards(): the cards of the current pass
  ci,            \* gather_cards(): index of the card being read
  seen_ids,      \* gather_cards(): seen_ids
  results,       \* gather_cards(): results, one card id per record
  status,        \* the per-date status lines printed by main()
  exc,           \* exception propagating out of the date loop
  ev,            \* what the last step of gather_cards() did
  label,         \* _parse_dates_from_label(): the label argument
  travel_year,   \* _parse_dates_from_label(): the travel_year argument
  lpc,           \* position of a call of _parse_dates_from_label()
  dep_iso,       \* _parse_dates_from_label(): dep_iso
  arr_iso,       \* _parse_dates_from_label(): arr_iso
  dep_dt,        \* _parse_dates_from_label(): dep_dt
  arr_dt         \* _parse_dates_from_label(): arr_dt

vars == <<args, now_year, pc, error, unique_dates, di, acquired, quits,
          navigated, cards, ci, seen_ids, results, status, exc, ev,
          label, travel_year, lpc, dep_iso, arr_iso, dep_dt, arr_dt>>

NoExc == [kind |-> "none", site |-> "none"]

\* gather_cards() locals outside a call
IdleHarvest ==
  /\ cards' = << >>
  /\ ci' = 0
  /\ seen_ids' = {}
  /\ results' = << >>
  /\ ev' = "none"

HarvestVars == <<cards, ci, seen_ids, results, ev>>

MainVars == <<args, now_year, error, unique_dates, acquired, quits>>

LabelVars == <<label, travel_year, lpc, dep_iso, arr_iso, dep_dt, arr_dt>>

RunVars == <<args, now_year, pc, error, unique_dates, di, acquired, quits,
             navigated, cards, ci, seen_ids, results, status, exc, ev>>

\* a local of _parse_dates_from_label() that is not bound yet
Unbound == MkDate(1, 1, 1)

\* the card lists the page can show after a scroll or a click, given the
\* list it showed before: lazily loaded cards are appended, a re-render
\* drops cards from the end
Rerendered(shown) ==
  {page \in Pages :
     \/ Len(page) >= Len(shown) /\ SubSeq(page, 1, Len(shown)) = shown
     \/ Len(page) < Len(shown) /\ SubSeq(shown, 1, Len(page)) = page}

(***************************************************************************)
(* main()                                                                  *)
(***************************************************************************)
\* lines 492-535: parse the directive; an input error ends the run here
ResolveDates ==
  /\ pc = "start"
  /\ \E r \in {ResolveTargetDates(args, now_year)} :
       /\ error' = r.err
       /\ unique_dates' = r.dates
       /\ pc' = IF r.err = "none" THEN "configure" ELSE "aborted"
  /\ UNCHANGED <<args, now_year, di, acquired, quits, navigated, status, exc>>
  /\ UNCHANGED HarvestVars
  /\ UNCHANGED LabelVars

\* line 537: configure_driver() opens the browser session, or raises
\* before a session exists (the driver binary cannot be installed/started)
ConfigureDriver ==
  /\ pc = "configure"
  /\ \/ /\ acquired' = acquired + 1
        /\ pc' = "loop"
        /\ di' = 1
        /\ error' = error
     \/ /\ acquired' = acquired
        /\ pc' = "aborted"
        /\ di' = di
        /\ error' = "WebDriverException"
  /\ UNCHANGED <<args, now_year, unique_dates, quits, navigated, status, exc>>
  /\ UNCHANGED HarvestVars
  /\ UNCHANGED LabelVars

\* lines 540-542: build the URL of the next date and load it.  driver.get
\* raises TimeoutException when the page load exceeds the 180 s limit.
Navigate ==
  /\ pc = "loop"
  /\ di <= Len(unique_dates)
  /\ \E pad_year \in BOOLEAN :
       navigated' = Append(navigated,
         [date |-> unique_dates[di],
          url |-> build_url_for_date(args.url, unique_dates[di], pad_year)])
  /\ \/ /\ \E page \in Pages : cards' = page
        /\ pc' = "wait"
        /\ exc' = exc
     \/ /\ cards' = cards
        /\ pc' = "finally"
        /\ exc' = [kind |-> "TimeoutException", site |-> "driver.get"]
  /\ UNCHANGED <<di, status, ci, seen_ids, results, ev>>
  /\ UNCHANGED MainVars
  /\ UNCHANGED LabelVars

\* lines 543-549: gather_cards() has returned raw_rows; print the status
\* line of the date ("Collected n flights" or "No flights found"), extend
\* all_rows, go to the next date
FinishDate ==
  /\ pc = "returned"
  /\ status' = Append(status, IF Len(results) > 0 THEN "collected" ELSE "none")
  /\ di' = di + 1
  /\ pc' = "loop"
  /\ IdleHarvest
  /\ UNCHANGED <<navigated, exc>>
  /\ UNCHANGED MainVars
  /\ UNCHANGED LabelVars

\* a buggy variant: no try/finally, an exception skips driver.quit()
QuitDriverUnlessRaised ==
  /\ \/ pc = "loop" /\ di > Len(unique_dates)
     \/ pc = "finally"
  /\ quits' = IF exc = NoExc THEN quits + 1 ELSE quits
  /\ pc' = IF exc = NoExc THEN "done" ELSE "crashed"
  /\ IdleHarvest
  /\ UNCHANGED <<args, now_year, error, unique_dates, di, acquired, navigated,
                 status, exc>>
  /\ UNCHANGED LabelVars

\* lines 550-551: the finally clause runs driver.quit() when the date loop
\* is exhausted and when an exception leaves it; the exception then
\* propagates out of main()
QuitDriver ==
  /\ \/ pc = "loop" /\ di > Len(unique_dates)
     \/ pc = "finally"
  /\ quits' = quits + 1
  /\ pc' = IF exc = NoExc THEN "done" ELSE "crashed"
  /\ IdleHarvest
  /\ UNCHANGED <<args, now_year, error, unique_dates, di, acquired, navigated,
                 status, exc>>
  /\ UNCHANGED LabelVars

(***************************************************************************)
(* gather_cards()                                                          *)
(***************************************************************************)
\* lines 349-366: wait up to 45 s for a first card; on TimeoutException
\* return []; otherwise start the first pass over the rendered cards
WaitForCards ==
  /\ pc = "wait"
  /\ IF Len(cards) = 0
     THEN /\ pc' = "returned"
          /\ ci' = 0
          /\ ev' = "timeout"
     ELSE /\ pc' = "cards"
          /\ ci' = 1
          /\ ev' = "present"
  /\ seen_ids' = {}
  /\ results' = << >>
  /\ UNCHANGED <<cards, di, navigated, status, exc>>
  /\ UNCHANGED MainVars
  /\ UNCHANGED LabelVars

\* lines 367-396: one iteration of the loop over cards
ReadCard ==
  /\ pc = "cards"
  /\ ci <= Len(cards)
  /\ LET card_id == cards[ci] IN
     \/ \* line 368: get_attribute raises on a stale card, outside the try
        /\ pc' = "finally"
        /\ exc' = [kind |-> "StaleElementReferenceException",
                   site |-> "card.get_attribute"]
        /\ ev' = "raised"
        /\ UNCHANGED <<ci, seen_ids, results>>
     \/ \* lines 369-370: the identifier was seen before
        /\ card_id \in seen_ids
        /\ ev' = "seen"
        /\ ci' = ci + 1
        /\ UNCHANGED <<pc, exc, seen_ids, results>>
     \/ \* lines 371-378: an extractor raises StaleElementReferenceException
        /\ card_id \notin seen_ids
        /\ ev' = "stale"
        /\ ci' = ci + 1
        /\ UNCHANGED <<pc, exc, seen_ids, results>>
     \/ \* lines 380-396: append the record, mark the identifier, test the cap
        /\ card_id \notin seen_ids
        /\ ev' = "appended"
        /\ results' = Append(results, card_id)
        /\ seen_ids' = seen_ids \cup {card_id}
        /\ ci' = ci + 1
        /\ pc' = IF CapReached(args.max_results, Len(results) + 1)
                 THEN "returned" ELSE "cards"
        /\ exc' = exc
  /\ UNCHANGED <<cards, di, navigated, status>>
  /\ UNCHANGED MainVars
  /\ UNCHANGED LabelVars

\* lines 398-425: the cards of the pass are exhausted; scroll to the
\* bottom, probe the "show more" controls, and either restart the pass
\* (a control was clicked), or scroll one viewport and compare the rendered
\* card count with the count of this pass
EndPass ==
  /\ pc = "cards"
  /\ ci > Len(cards)
  /\ \E ctrls \in ControlLists, page \in Rerendered(cards) :
       LET probe == ProbeControls(ctrls) IN
       IF probe = "stale"
       THEN /\ pc' = "finally"
            /\ exc' = [kind |-> "StaleElementReferenceException",
                       site |-> "element.is_displayed"]
            /\ ev' = "raised"
            /\ UNCHANGED <<cards, ci>>
       ELSE IF probe = "clicked"
       THEN /\ ev' = "clicked"
            /\ cards' = page
            /\ ci' = 1
            /\ UNCHANGED <<pc, exc>>
       ELSE IF NoGrowth(Len(page), Len(cards))
       THEN /\ ev' = "no_growth"
            /\ pc' = "returned"
            /\ UNCHANGED <<cards, ci, exc>>
       ELSE /\ ev' = "grew"
            /\ cards' = page
            /\ ci' = 1
            /\ UNCHANGED <<pc, exc>>
  /\ UNCHANGED <<seen_ids, results, di, navigated, status>>
  /\ UNCHANGED MainVars
  /\ UNCHANGED LabelVars

Next ==
  \/ ResolveDates
  \/ ConfigureDriver
  \/ Navigate
  \/ FinishDate
  \/ QuitDriver
  \/ WaitForCards
  \/ ReadCard
  \/ EndPass

(***************************************************************************)
(* _parse_dates_from_label()                                               *)
(***************************************************************************)
\* lines 230-241: split the label, parse both fragments; with both dates
\* resolved the correction loop is entered, otherwise the call returns
ParseFragments ==
  /\ lpc = "called"
  /\ \E d \in {parse_date_fragment(dep_fragment(label), travel_year)},
        a \in {parse_date_fragment(arr_fragment(label), travel_year)} :
       /\ dep_iso' = d
       /\ arr_iso' = a
       /\ IF d # << >> /\ a # << >>
          THEN /\ dep_dt' = FromIsoFormat(d).date
               /\ arr_dt' = FromIsoFormat(a).date
               /\ lpc' = "rollover"
          ELSE /\ lpc' = "returned"
               /\ UNCHANGED <<dep_dt, arr_dt>>
  /\ UNCHANGED <<label, travel_year>>
  /\ UNCHANGED RunVars

\* lines 242-243: one pass of the correction loop
AdvanceArrival ==
  /\ lpc = "rollover"
  /\ RolloverPending(arr_dt, dep_dt)
  /\ arr_dt' = AddDays(arr_dt, 1)
  /\ UNCHANGED <<label, travel_year, lpc, dep_iso, arr_iso, dep_dt>>
  /\ UNCHANGED RunVars

\* lines 242-246: the loop condition fails, the dates are returned
ReturnDates ==
  /\ lpc = "rollover"
  /\ ~RolloverPending(arr_dt, dep_dt)
  /\ arr_iso' = isoformat(arr_dt)
  /\ lpc' = "returned"
  /\ UNCHANGED <<label, travel_year, dep_iso, dep_dt, arr_dt>>
  /\ UNCHANGED RunVars

NextLabel ==
  \/ ParseFragments
  \/ AdvanceArrival
  \/ ReturnDates

(***************************************************************************)
(* Inputs.                                                                 *)
(***************************************************************************)
TxtD1 == <<"2", "0", "2", "5", "-", "1", "2", "-", "0", "1">>

TxtD2 == <<"2", "0", "2", "5", "-", "1", "2", "-", "0", "2">>

\* no thirteenth month
TxtBadDate == <<"2", "0", "2", "5", "-", "1", "3", "-", "0", "1">>

TxtBlank == <<" ">>

\* DEFAULT_DATE_LABEL
DEFAULT_DATE_LABEL == <<"W", "e", "d", ",", " ", "O", "c", "t", " ", "8">>

LblFullMonth == <<"S", "a", "t", ",", " ", "F", "e", "b", "r", "u", "a", "r", "y", " ", "2", "9">>

LblNoComma == <<"O", "c", "t", " ", "8">>

LblNoDay == <<"W", "e", "d", ",", " ", "O", "c", "t">>

LblBadMonth == <<"W", "e", "d", ",", " ", "S", "e", "p", "t", " ", "8">>

LblBadDay == <<"W", "e", "d", ",", " ", "O", "c", "t", " ", "8", "t", "h">>

\* the default of --year-offsets
DefaultOffsets == <<"0", ",", "1">>

\* a URL without tfs parameter
UrlNoTfs == <<[name |-> "tfu", value |-> DefaultTfu]>>

\* s1,s2,...: the text of a comma-separated option
RECURSIVE JoinComma(_)
JoinComma(chunks) ==
  IF Len(chunks) = 0 THEN << >>
  ELSE IF Len(chunks) = 1 THEN chunks[1]
  ELSE chunks[1] \o <<",">> \o JoinComma(SubSeq(chunks, 2, Len(chunks)))

ChunkLists(pool) == UNION {[1..n -> pool] : n \in 1..MaxChunks}

DateChunkPool == {TxtD1, TxtD2, TxtBadDate, TxtBlank}

OffsetChunkPool == {<<"0">>, <<"1">>, <<"-", "1">>, <<"x">>, << >>}

LabelPool ==
  {DEFAULT_DATE_LABEL, LblFullMonth, LblNoComma, LblNoDay, LblBadMonth,
   LblBadDay}

RangeEndPool == {<< >>, TxtD1, TxtD2, TxtBadDate}

\* argparse defaults
DefaultArgs ==
  [url |-> DEFAULT_URL, target_date |-> DEFAULT_DATE_LABEL, max_results |-> 0,
   dates |-> << >>, range_start |-> << >>, range_end |-> << >>,
   year_offsets |-> DefaultOffsets]

\* no call of _parse_dates_from_label() is under way
IdleLabel ==
  /\ label = << >>
  /\ travel_year = 0
  /\ lpc = "idle"
  /\ dep_iso = << >>
  /\ arr_iso = << >>
  /\ dep_dt = Unbound
  /\ arr_dt = Unbound

\* the state main() starts in
InitRun ==
  /\ pc = "start"
  /\ error = "none"
  /\ unique_dates = << >>
  /\ di = 0
  /\ acquired = 0
  /\ quits = 0
  /\ navigated = << >>
  /\ cards = << >>
  /\ ci = 0
  /\ seen_ids = {}
  /\ results = << >>
  /\ status = << >>
  /\ exc = NoExc
  /\ ev = "none"

\* runs over one or two explicit dates, with and without a result cap
Init ==
  /\ \E ds \in {<<TxtD1>>, <<TxtD1, TxtD2>>}, cap \in {0, 1, 2} :
       args = [DefaultArgs EXCEPT !.dates = JoinComma(ds), !.max_results = cap]
  /\ now_year = 2026
  /\ InitRun
  /\ IdleLabel

Spec == Init /\ [][Next]_vars

\* one explicit date, no result cap
InitUncapped ==
  /\ args = [DefaultArgs EXCEPT !.dates = TxtD1]
  /\ now_year = 2026
  /\ InitRun
  /\ IdleLabel

\* the interpreter runs gather_cards() on: a step of it that can be taken
\* is taken
FairSpec ==
  /\ InitUncapped
  /\ [][Next]_vars
  /\ WF_vars(WaitForCards)
  /\ WF_vars(ReadCard)
  /\ WF_vars(EndPass)

\* every kind of directive, with a cap of one record per date: explicit
\* lists (alone, and with a range and a malformed label that must be
\* ignored), ranges, and label + offsets with the year taken from the URL
\* or from the clock
InitDates ==
  /\ \/ /\ \E ds \in ChunkLists(DateChunkPool) :
             \/ args = [DefaultArgs EXCEPT !.dates = JoinComma(ds),
                                           !.max_results = 1]
             \/ args = [DefaultArgs EXCEPT !.dates = JoinComma(ds),
                                           !.range_start = TxtD2,
                                           !.range_end = TxtD1,
                                           !.target_date = LblNoComma,
                                           !.max_results = 1]
        /\ now_year = 2026
     \/ /\ \E rs \in RangeEndPool, re \in RangeEndPool,
             lbl \in {DEFAULT_DATE_LABEL, LblNoComma} :
             args = [DefaultArgs EXCEPT !.range_start = rs, !.range_end = re,
                                        !.target_date = lbl,
                                        !.max_results = 1]
        /\ now_year = 2026
     \/ /\ \E lbl \in LabelPool, os \in ChunkLists(OffsetChunkPool) :
             /\ lbl = DEFAULT_DATE_LABEL \/ os = <<<<"0">>, <<"1">>>>
             /\ \/ /\ args = [DefaultArgs EXCEPT !.target_date = lbl,
                                                 !.year_offsets = JoinComma(os),
                                                 !.max_results = 1]
                   /\ now_year = 2026
                \/ /\ args = [DefaultArgs EXCEPT !.url = UrlNoTfs,
                                                 !.target_date = lbl,
                                                 !.year_offsets = JoinComma(os),
                                                 !.max_results = 1]
                   /\ now_year = 2024
  /\ InitRun
  /\ IdleLabel

SpecDates == InitDates /\ [][Next]_vars

(***************************************************************************)
(* Inputs of the date rewriting: tfs values around a date at every         *)
(* alignment of the base64 quantum, and target dates.                      *)
(***************************************************************************)
\* the date at offset 0 of the blob
TfsAligned0 ==
  <<"M", "j", "A", "y", "N", "S", "0", "x", "M", "C", "0", "w", "N", "G",
  "o">>

\* the date at offset 1, ending the blob
TfsAligned1 ==
  <<"C", "j", "I", "w", "M", "j", "U", "t", "M", "T", "A", "t", "M", "D",
  "Q">>

\* the date at offset 2
TfsAligned2 ==
  <<"E", "g", "o", "y", "M", "D", "I", "1", "L", "T", "E", "w", "L", "T",
  "A", "0", "a", "g", "w">>

\* two dates: only the first is rewritten
TfsTwoDates ==
  <<"C", "j", "I", "w", "M", "j", "U", "t", "M", "T", "A", "t", "M", "D",
  "Q", "K", "M", "j", "A", "y", "N", "S", "0", "x", "M", "C", "0", "x",
  "M", "Q">>

\* decodable, no YYYY-MM-DD substring
TfsNoDate ==
  <<"C", "B", "w", "y", "M", "D", "I", "1", "L", "z", "E", "w", "L", "z",
  "A", "0">>

\* a character outside the alphabet, which the decoder skips
TfsJunk ==
  <<"C", "j", "I", "w", "M", "!", "j", "U", "t", "M", "T", "A", "t", "M",
  "D", "R", "q">>

\* one data character more than a multiple of 4: binascii.Error
TfsUndecodable ==
  <<"C", "j", "I", "w", "M", "j", "U", "t", "M", "T", "A", "t", "M", "D",
  "R", "q", "A">>

UrlOf(tfs) == <<[name |-> "tfs", value |-> tfs]>>

\* a repeated tfs parameter and a blank parameter among others
UrlRepeatedTfs ==
  <<[name |-> "hl", value |-> <<"e", "n">>],
    [name |-> "tfs", value |-> TfsAligned1],
    [name |-> "curr", value |-> << >>],
    [name |-> "tfs", value |-> TfsNoDate]>>

UrlPool ==
  {DEFAULT_URL, UrlNoTfs, UrlRepeatedTfs, UrlOf(TfsAligned0),
   UrlOf(TfsAligned1), UrlOf(TfsAligned2), UrlOf(TfsTwoDates),
   UrlOf(TfsNoDate), UrlOf(TfsJunk), UrlOf(TfsUndecodable)}

TxtLeapDay == <<"2", "0", "2", "4", "-", "0", "2", "-", "2", "9">>

TxtYear999 == <<"0", "9", "9", "9", "-", "0", "1", "-", "0", "2">>

TxtYear9999 == <<"9", "9", "9", "9", "-", "1", "2", "-", "3", "1">>

TargetTextPool == {TxtD1, TxtLeapDay, TxtYear999, TxtYear9999}

\* one explicit target date, each base URL, a cap of one record
InitUrl ==
  /\ \E u \in UrlPool, t \in TargetTextPool :
       args = [DefaultArgs EXCEPT !.url = u, !.dates = t, !.max_results = 1]
  /\ now_year = 2026
  /\ InitRun
  /\ IdleLabel

SpecUrl == InitUrl /\ [][Next]_vars

(***************************************************************************)
(* Calls of _parse_dates_from_label(): labels of the form                  *)
(* "... on <date text> and arrives ... on <date text>".                    *)
(***************************************************************************)
On == <<"o", "n", " ">>

DtDec31 ==
  <<"W", "e", "d", "n", "e", "s", "d", "a", "y", ",", " ",
    "D", "e", "c", "e", "m", "b", "e", "r", " ", "3", "1">>

DtJan1 == <<"T", "h", "u", ",", " ", "J", "a", "n", " ", "1">>

DtOct8 == <<"W", "e", "d", ",", " ", "O", "c", "t", " ", "8">>

DtOct9 == <<"t", "h", "u", ",", " ", "O", "C", "T", " ", "0", "9">>

DtMar1 == <<"S", "a", "t", ",", " ", "M", "a", "r", "c", "h", " ", "1">>

DtFeb29 == <<"F", "r", "i", ",", " ", "F", "e", "b", " ", "2", "9">>

\* no weekday name of either format
DtBadWeekday ==
  <<"T", "h", "u", "r", "s", ",", " ", "S", "e", "p", " ", "9">>

\* no day of any month
DtBadDay == <<"S", "a", "t", ",", " ", "J", "u", "n", " ", "4", "5">>

DateTextPool ==
  {DtDec31, DtJan1, DtOct8, DtOct9, DtMar1, DtFeb29, DtBadWeekday, DtBadDay}

\* "Leaves ... on <dep> and arrives ... on <arr>."
TwoDateLabel(dep, arr) ==
  <<"L", "e", "a", "v", "e", "s", " ">> \o On \o dep \o AndArrives
    \o <<"a", "t", " ", "1", " ", "A", "M", " ">> \o On \o arr \o <<".">>

\* a label without the "and arrives" clause
LblNoArrival == <<"L", "e", "a", "v", "e", "s", " ">> \o On \o DtOct8

\* narrow no-break spaces where the clause and the day have spaces
LblNarrowSpaces ==
  On \o DtOct9 \o <<NarrowNoBreakSpace>>
    \o <<"a", "n", "d", " ", "a", "r", "r", "i", "v", "e", "s", " ">>
    \o On \o <<"W", "e", "d", ",", " ", "O", "c", "t", NarrowNoBreakSpace, "8">>

\* the pattern first matches text that is no date: "on Heathrow, Terminal 5"
LblPlaceBeforeDate ==
  <<"L", "o", "n", "d">> \o On
    \o <<"H", "e", "a", "t", "h", "r", "o", "w", ",", " ",
         "T", "e", "r", "m", "i", "n", "a", "l", " ", "5", " ">>
    \o On \o DtOct8 \o AndArrives \o On \o DtOct9

\* a second "and arrives" clause, with an earlier date, in the arrival part
LblTwoClauses ==
  On \o DtOct9 \o AndArrives \o On \o DtOct9 \o AndArrives \o On \o DtOct8

\* a third digit after the day: the pattern takes two
LblLongDay ==
  On \o DtOct9 \o AndArrives \o On
    \o <<"W", "e", "d", ",", " ", "O", "c", "t", " ", "0", "4", "5">>

LabelTextPool ==
  {TwoDateLabel(dep, arr) : dep \in DateTextPool, arr \in DateTextPool}
    \cup {LblNoArrival, LblNarrowSpaces, LblPlaceBeforeDate, LblTwoClauses,
          LblLongDay}

\* dt.year of a target date: a leap year, a common year, a year that
\* prints with three digits and the last year of the calendar
TravelYearPool == {2024, 2025, 999, 9999}

\* a call _parse_dates_from_label(label, travel_year)
InitLabel ==
  /\ args = DefaultArgs
  /\ now_year = 2026
  /\ InitRun
  /\ label \in LabelTextPool
  /\ travel_year \in TravelYearPool
  /\ lpc = "called"
  /\ dep_iso = << >>
  /\ arr_iso = << >>
  /\ dep_dt = Unbound
  /\ arr_dt = Unbound

\* the interpreter runs the loop on: a step of it that can be taken is taken
SpecLabel ==
  /\ InitLabel
  /\ [][NextLabel]_vars
  /\ WF_vars(AdvanceArrival)
  /\ WF_vars(ReturnDates)

(***************************************************************************)
(* Properties.                                                             *)
(***************************************************************************)
Harvesting == pc = "cards"

Ended == pc \in {"done", "crashed"}

RecordsOf(id) == Cardinality({k \in 1..Len(results) : results[k] = id})

\* the card the last step of the card loop looked at
LastCard == IF pc = "finally" THEN cards[ci] ELSE cards[ci - 1]

\* C1: within one navigation the cards carrying one non-null identifier
\* yield at most one record in total, and a card whose identifier is
\* absent is never skipped as already seen: each one that is enumerated
\* and read yields its own record.
C1Claim ==
  /\ \A id \in CardIds : RecordsOf(id) <= 1
  /\ ~(ev = "seen" /\ LastCard = NoId)

\* C2: a pass of the harvest loop in which no "show more" control was
\* clicked and after which the rendered card count is not greater than the
\* count of the pass ends the loop, and gather_cards returns the records
\* accumulated so far.
C2Theorem ==
  [][(/\ Harvesting
      /\ ci > Len(cards)
      /\ ev' \notin {"clicked", "raised"}
      /\ ~(Len(cards') > Len(cards)))
     => (pc' = "returned" /\ results' = results)]_vars

\* the loop ended on non-growth and returned the records it had
C2Witness == pc = "returned" /\ ev = "no_growth" /\ Len(results) > 0

\* C3: whatever the page does, a call of gather_cards that has started
\* eventually leaves the harvest loop.
C3Claim == (pc = "wait") ~> (pc \in {"returned", "finally"})

\* C4: with max_results > 0 the number of accumulated records never
\* exceeds max_results and the harvest is over as soon as it reaches it;
\* with max_results = 0 gather_cards returns only on non-growth (or on the
\* initial-presence timeout).
C4Theorem ==
  /\ args.max_results > 0 => Len(results) <= args.max_results
  /\ (args.max_results > 0 /\ Len(results) = args.max_results)
       => (pc = "returned" /\ ev = "appended")
  /\ (args.max_results = 0 /\ pc = "returned")
       => ev \in {"no_growth", "timeout"}

\* the cap of two ended the harvest while unread cards remained
C4Witness ==
  /\ args.max_results = 2
  /\ pc = "returned"
  /\ Len(results) = 2
  /\ ci <= Len(cards)

\* C5: a timeout of the page load or of the wait for the first card is
\* recovered as zero results for that date: a run in which nothing but
\* timeouts went wrong navigates every target date and reports a status
\* line for each.
C5Claim ==
  /\ (pc = "returned" /\ ev = "timeout") => results = << >>
  /\ (Ended /\ exc.kind \in {"none", "TimeoutException"})
       => /\ Len(navigated) = Len(unique_dates)
          /\ Len(status) = Len(unique_dates)

\* C6: the browser session is acquired at most once, driver.quit() is
\* called exactly once on every path that follows the acquisition, also
\* when navigation or extraction raises, and the run takes no step after
\* the release (a released session is found in end states only).
C6Theorem ==
  /\ acquired <= 1
  /\ quits <= acquired
  /\ Ended => (acquired = 1 /\ quits = 1)
  /\ quits = 1 => Ended
  /\ pc \in {"loop", "wait", "cards", "returned", "finally"}
       => (acquired = 1 /\ quits = 0)
  /\ pc \in {"start", "configure", "aborted"} => acquired = 0

\* the session was released after an extraction step raised
C6Witness ==
  /\ pc = "crashed"
  /\ exc.kind = "StaleElementReferenceException"
  /\ acquired = 1
  /\ quits = 1
  /\ Len(navigated) > 0

\* the chunks of a comma-separated option
Chunks(text) == Split(text, <<",">>)

\* the directive is one that the input checks must reject
BadDirective ==
  IF Len(args.dates) > 0
  THEN \E k \in 1..Len(Chunks(args.dates)) :
         Chunks(args.dates)[k] = TxtBadDate
  ELSE IF Len(args.range_start) > 0 /\ Len(args.range_end) > 0
  THEN \/ TxtBadDate \in {args.range_start, args.range_end}
       \/ args.range_start = TxtD2 /\ args.range_end = TxtD1
  ELSE \/ args.target_date \in {LblNoComma, LblNoDay, LblBadMonth, LblBadDay}
       \/ \E k \in 1..Len(Chunks(args.year_offsets)) :
            Chunks(args.year_offsets)[k] = <<"x">>

\* C7: a malformed entry of the explicit date list, a malformed or
\* inverted range, an unparseable year offset or a malformed date label
\* ends the run before the browser session is acquired and before any
\* driver.get.
C7Theorem ==
  /\ BadDirective
       => (pc \in {"start", "aborted"} /\ acquired = 0 /\ navigated = << >>)
  /\ error \in {"SystemExit", "ValueError"}
       => (pc = "aborted" /\ acquired = 0 /\ navigated = << >>)

\* a malformed date label ended the run with no session and no navigation
C7Witness ==
  /\ pc = "aborted"
  /\ error = "ValueError"
  /\ args.target_date = LblBadMonth
  /\ acquired = 0
  /\ navigated = << >>

\* the date an input text of the pools names
DateOfText(t) ==
  IF t = TxtD1 THEN MkDate(2025, 12, 1) ELSE MkDate(2025, 12, 2)

\* the offset a year-offset chunk of the pool names
OffsetOfText(t) ==
  IF t = <<"1">> THEN 1 ELSE IF t = <<"-", "1">> THEN 0 - 1 ELSE 0

\* the year the label strategy starts from: 2025 is embedded in DEFAULT_URL
BaseYear == IF args.url = DEFAULT_URL THEN 2025 ELSE now_year

\* the month and day an accepted label of the pool names
LabelDay(y) ==
  IF args.target_date = DEFAULT_DATE_LABEL THEN MkDate(y, 10, 8)
  ELSE IF IsLeap(y) THEN MkDate(y, 2, 29) ELSE MkDate(y, 2, 28)

\* the list of dates the selected strategy produces, duplicates included
ExpectedDates ==
  IF Len(args.dates) > 0
  THEN LET cs == SelectSeq(Chunks(args.dates), LAMBDA c : c # TxtBlank)
       IN [k \in 1..Len(cs) |-> DateOfText(cs[k])]
  ELSE IF Len(args.range_start) > 0 /\ Len(args.range_end) > 0
  THEN IF args.range_start = args.range_end
       THEN <<DateOfText(args.range_start)>>
       ELSE <<MkDate(2025, 12, 1), MkDate(2025, 12, 2)>>
  ELSE LET cs == SelectSeq(Chunks(args.year_offsets), LAMBDA c : c # << >>)
           os == IF Len(cs) = 0 THEN <<<<"0">>>> ELSE cs
       IN [k \in 1..Len(os) |-> LabelDay(BaseYear + OffsetOfText(os[k]))]

FirstIndex(seq, x) ==
  CHOOSE i \in 1..Len(seq) : seq[i] = x /\ \A j \in 1..(i - 1) : seq[j] # x

\* C8: the navigated dates are those of exactly one strategy, chosen with
\* priority explicit dates > range > label + offsets: each date of that
\* strategy's list occurs once, in order of first occurrence, and the
\* driver.get calls follow that order.
C8Theorem ==
  pc \notin {"start", "aborted"} =>
    /\ {unique_dates[k] : k \in 1..Len(unique_dates)}
         = {ExpectedDates[k] : k \in 1..Len(ExpectedDates)}
    /\ \A i, j \in 1..Len(unique_dates) :
         i < j => /\ unique_dates[i] # unique_dates[j]
                  /\ FirstIndex(ExpectedDates, unique_dates[i])
                       < FirstIndex(ExpectedDates, unique_dates[j])
    /\ Len(navigated) <= Len(unique_dates)
    /\ \A k \in 1..Len(navigated) : navigated[k].date = unique_dates[k]
    /\ Ended /\ exc = NoExc => Len(navigated) = Len(unique_dates)

\* an explicit list with a repeated date won over a range and a malformed
\* label, and its single date was navigated once
C8Witness ==
  /\ args.dates = JoinComma(<<TxtD1, TxtD1>>)
  /\ Len(args.range_start) > 0
  /\ pc = "done"
  /\ Len(navigated) = 1
  /\ navigated[1].date = MkDate(2025, 12, 1)

\* decode: the bytes of a rewritten or original tfs value
DecodeTfs(url) ==
  urlsafe_b64decode(TfsValue(url)
                      \o Pads((4 - (Len(TfsValue(url)) % 4)) % 4))

HasDate(url) ==
  /\ Len(TfsValue(url)) > 0
  /\ DecodeTfs(url).ok
  /\ DateSearch(DecodeTfs(url).bytes) # 0

\* C9: when the tfs parameter of the base URL decodes to bytes containing
\* a YYYY-MM-DD substring, the rewritten parameter decodes to bytes of the
\* same length whose first date substring is the ISO form of the target
\* date, every other byte unchanged; otherwise the URL is returned
\* unchanged.
C9Claim ==
  \A k \in 1..Len(navigated) :
    LET out == navigated[k].url
        old == DecodeTfs(args.url).bytes
        new == DecodeTfs(out)
        at == DateSearch(old)
    IN IF HasDate(args.url)
       THEN /\ new.ok
            /\ Len(new.bytes) = Len(old)
            /\ DateSearch(new.bytes) = at
            /\ SubSeq(new.bytes, at, at + 9) = IsoBytes(navigated[k].date)
            /\ \A i \in 1..Len(old) :
                 (i < at \/ i > at + 9) => new.bytes[i] = old[i]
       ELSE out = args.url

\* C10: a stale-element failure while reading a card or probing a "show
\* more" control never leaves gather_cards; the affected card is skipped,
\* no record is appended for it and its identifier is not marked seen.
C10Claim ==
  /\ exc.kind # "StaleElementReferenceException"
  /\ (pc = "cards" /\ ev = "stale") => LastCard \notin seen_ids

\* the dates the two fragments of the label parse to, before any correction
ParsedDeparture == parse_date_fragment(dep_fragment(label), travel_year)

ParsedArrival == parse_date_fragment(arr_fragment(label), travel_year)

BothResolve == ParsedDeparture # << >> /\ ParsedArrival # << >>

\* days from the date of ISO text a to the date of ISO text b
DaysFromTo(a, b) ==
  ToOrdinal(FromIsoFormat(b).date) - ToOrdinal(FromIsoFormat(a).date)

\* what a call that resolved both dates returns
RolloverReturned ==
  (lpc = "returned" /\ BothResolve) =>
    /\ dep_iso = ParsedDeparture
    /\ FromIsoFormat(arr_iso).ok
    /\ DaysFromTo(dep_iso, arr_iso) >= 0
    /\ DaysFromTo(ParsedArrival, ParsedDeparture) > 0 => arr_iso = dep_iso
    /\ DaysFromTo(ParsedArrival, ParsedDeparture) <= 0 =>
         arr_iso = ParsedArrival

\* the loop is entered only with both dates resolved, and inside it the
\* arrival is a calendar day not later than the departure
RolloverBounded ==
  (lpc = "rollover") =>
    /\ FromIsoFormat(dep_iso).ok
    /\ FromIsoFormat(arr_iso).ok
    /\ ValidDate(arr_dt.y, arr_dt.m, arr_dt.d)
    /\ dep_dt = FromIsoFormat(dep_iso).date
    /\ \/ ToOrdinal(arr_dt) <= ToOrdinal(dep_dt)
       \/ arr_dt = FromIsoFormat(arr_iso).date

\* a pass of the loop moves the arrival by one day and nothing else
RolloverStep ==
  (lpc = "rollover" /\ lpc' = "rollover") =>
    /\ ToOrdinal(arr_dt') = ToOrdinal(arr_dt) + 1
    /\ ToOrdinal(arr_dt) < ToOrdinal(dep_dt)
    /\ dep_dt' = dep_dt
    /\ dep_iso' = dep_iso

\* C11: whenever both the departure and the arrival date resolve from the
\* label, the returned arrival date is never earlier than the returned
\* departure date: an arrival that parsed earlier than the departure is
\* advanced one day at a time until it equals the departure date, an
\* arrival that is not earlier is returned unchanged, and the correction
\* loop terminates (a call that entered it returns).
C11Theorem ==
  /\ [](RolloverReturned /\ RolloverBounded)
  /\ [][RolloverStep]_vars
  /\ (lpc = "rollover") ~> (lpc = "returned")

\* a call whose arrival parsed earlier than its departure (December 31,
\* then January 1 of the same year) has returned, the arrival advanced to
\* the departure date
C11Witness ==
  /\ lpc = "returned"
  /\ BothResolve
  /\ DaysFromTo(ParsedArrival, ParsedDeparture) = 364
  /\ arr_iso = dep_iso
  /\ arr_dt = dep_dt

====
